---- MODULE Spec2Model ----
(***************************************************************************)
(* Candidate matching and ranking engine of Kunji Skill Analyzer Pro.      *)
(*                                                                         *)
(* base/utils.py : match_candidates_from_google_sheet ("sheet" variant)    *)
(*                 match_candidates_with_jd           ("excel" variant)    *)
(* base/views.py : match_candidates (the caller of the sheet variant)      *)
(*                 download_matched_file, upload_jd, results, show_matches *)
(* base/middleware.py : RateLimitMiddleware                                *)
(* base/utils.py : export_matched_candidates, extract_skills_from_jd,      *)
(*                 save_jd_to_excel                                        *)
(*                                                                         *)
(* Spec        one ranking request          RepeatSpec  the ranker twice   *)
(* ColumnsSpec the exported columns         UploadSpec  upload_jd requests *)
(* WebSpec     match runs and downloads of two users; WebFairSpec adds     *)
(*             the passage of time                                         *)
(* ViewSpec    the four views that take a job description's key           *)
(* PairSpec    both rankers on one input    FieldsSpec  one candidate_data *)
(* ConcSpec    two concurrent ranker calls  ArchiveSpec two concurrent     *)
(* RateSpec    RateLimitMiddleware          save_jd_to_excel calls         *)
(*                                                                         *)
(* Strings are sequences of one-character strings, so that lower(),        *)
(* strip(), split(',') and the `in` substring test are computed and not    *)
(* assumed.  A percentage before rounding is the exact fraction            *)
(* num/den; a reported match_percentage is an integer number of tenths     *)
(* (667 stands for 66.7).                                                  *)
(***************************************************************************)
EXTENDS Integers, Sequences, FiniteSets, TLC

VARIABLES
    variant,               \* which ranker runs: "sheet" or "excel"
    source,                \* the candidate source as the ranker will find it
    required_skills,       \* argument required_skills
    min_match_percentage,  \* argument min_match_percentage
    pc,                    \* position of the request
    idx,                   \* df.iterrows(): position of the next row
    matched_candidates,    \* local list matched_candidates of the ranker
    result,                \* value returned by the ranker
    message,               \* message the match_candidates view flashes
    redirect_to,           \* view the match_candidates view redirects to
    session,               \* request.session of the caller
    media_files,           \* files under MEDIA_ROOT/matched_candidates
    calls,                 \* number of the ranker call under way
    first_result,          \* value the first of two ranker calls returned
    export_pc,             \* position of an export_matched_candidates call
    df_columns,            \* df.columns: the keys the result records have
    blank_columns,         \* the columns whose value is blank in every row
    written_columns,       \* header row of the exported sheet
    now,                   \* datetime.now(), in clock ticks
    fs,                    \* the files under MEDIA_ROOT/matched_candidates
    web_session,           \* request.session of every user
    response,              \* the last response every user got
    runs,                  \* the match runs that exported, in order
    served,                \* how often the file of each run was sent out
    retrieved,             \* the user has downloaded since the last run
    superseded,            \* a later match request for the job description
                           \* of the session data stored nothing
    uploads,               \* number of upload_jd requests so far
    llm_output,            \* what the last language-model call came to
    extraction,            \* what extract_skills_from_jd returned last
    jd_db,                 \* the JobDescription rows of the database
    jd_files,              \* the uploaded files on disk, by JobDescription
    excel_db,              \* the Excel database save_jd_to_excel keeps
    upload_message,        \* message the last upload_jd request flashed
    analyzed,              \* the uploads answered "analyzed successfully"
    field_pc,              \* position of the construction of a candidate_data
    field_cols,            \* the row: per candidate field, no column or a cell
    candidate_fields,      \* the candidate fields of the candidate_data built
    shared_source,         \* the source two concurrent ranker calls read
    invocation,            \* arguments, position and result of each call
    local_lists,           \* the lists matched_candidates of the calls
    saver,                 \* the save_jd_to_excel calls running concurrently
    archive_before,        \* the rows of the Excel database before them
    rate_now,              \* int(time.time())
    rate_limit_cache,      \* RateLimitMiddleware.rate_limit_cache
    handler                \* the threads running RateLimitMiddleware.__call__

ranker_vars == <<variant, source, required_skills, min_match_percentage, pc,
                 idx, matched_candidates, result, message, redirect_to,
                 session, media_files>>

repeat_vars == <<calls, first_result>>

column_vars == <<export_pc, df_columns, blank_columns, written_columns>>

web_vars == <<now, fs, web_session, response, runs, served, retrieved,
              superseded>>

upload_vars == <<uploads, llm_output, extraction, jd_db, jd_files, excel_db,
                 upload_message, analyzed>>

field_vars == <<field_pc, field_cols, candidate_fields>>

conc_vars == <<shared_source, invocation, local_lists>>

archive_vars == <<saver, archive_before>>

\* the variables of the parts further down
rate_vars == <<rate_now, rate_limit_cache, handler>>

extra_vars == <<field_vars, conc_vars, archive_vars, rate_vars>>

\* what a ranking request never touches
other_vars == <<repeat_vars, column_vars, web_vars, upload_vars, extra_vars>>

vars == <<ranker_vars, other_vars>>

------------------------------------------------------------------------------
(* Bounds of the model *)

\* longest candidate pool
MaxCand == 2
\* last reading of the clock
MaxClock == 3
\* clock ticks in a day
TicksPerDay == 2
\* match runs that export a file
MaxRuns == 2
\* upload_jd requests
MaxUploads == 2
\* longest required-skill list built freely from ReqSkills
MaxReq == 2
\* length of the long required-skill lists (a job description with many skills)
MaxLong == 21
\* POSTs the rate limiter has on record or under way at a time
MaxPosts == 31
\* times the clock of the rate limiter advances by a window
MaxWindows == 1

------------------------------------------------------------------------------
(* Python strings *)

UpperChars == <<"A","B","C","D","E","F","G","H","I","J","K","L","M",
                "N","O","P","Q","R","S","T","U","V","W","X","Y","Z">>
LowerChars == <<"a","b","c","d","e","f","g","h","i","j","k","l","m",
                "n","o","p","q","r","s","t","u","v","w","x","y","z">>
Whitespace == {" "}

\* str.lower() on one character
LowerChar(c) ==
    IF \E i \in 1..Len(UpperChars) : UpperChars[i] = c
    THEN LowerChars[CHOOSE i \in 1..Len(UpperChars) : UpperChars[i] = c]
    ELSE c

\* str.lower()
PyLower(s) == [i \in 1..Len(s) |-> LowerChar(s[i])]

\* str.strip()
PyStrip(s) ==
    LET keep == {i \in 1..Len(s) : s[i] \notin Whitespace}
    IN  IF keep = {} THEN <<>>
        ELSE LET lo == CHOOSE i \in keep : \A j \in keep : i <= j
                 hi == CHOOSE i \in keep : \A j \in keep : j <= i
             IN  SubSeq(s, lo, hi)

\* str.split(','): always at least one piece
RECURSIVE PySplit(_)
PySplit(s) ==
    LET commas == {i \in 1..Len(s) : s[i] = ","}
    IN  IF commas = {} THEN <<s>>
        ELSE LET c == CHOOSE i \in commas : \A j \in commas : i <= j
             IN  <<SubSeq(s, 1, c - 1)>> \o PySplit(SubSeq(s, c + 1, Len(s)))

\* a in b (substring test)
PyIn(a, b) ==
    \E i \in 0..(Len(b) - Len(a)) : SubSeq(b, i + 1, i + Len(a)) = a

\* seq[:n]
PyTake(seq, n) == IF Len(seq) <= n THEN seq ELSE SubSeq(seq, 1, n)

------------------------------------------------------------------------------
(* Literals *)

s_empty  == <<>>
s_nan    == <<"n","a","n">>
s_Nan    == <<"N","a","n">>
s_blank  == <<" ">>
s_Python == <<"P","y","t","h","o","n">>
s_SQL    == <<"S","Q","L">>
s_Docker == <<"D","o","c","k","e","r">>
s_Java   == <<"J","a","v","a">>
s_python == <<"p","y","t","h","o","n">>
s_sql    == <<"s","q","l">>
s_docker == <<"d","o","c","k","e","r">>
s_java   == <<"j","a","v","a">>
s_scenarioA == <<"P","y","t","h","o","n",","," ","M","y","S","Q","L",","," ",
                 "D","o","c","k","e","r",","," ",
                 "C","o","m","m","u","n","i","c","a","t","i","o","n">>
s_c_java == <<"C",","," ","J","A","V","A",",","j","a","v","a">>

------------------------------------------------------------------------------
(* Inputs *)

\* a cell of the Skills column: a text, or the float NaN pandas uses for a
\* missing value
TextCell(s) == [kind |-> "text", text |-> s]
NaNCell == [kind |-> "float_nan", text |-> <<>>]

\* str(value)
PyStr(cell) == IF cell.kind = "float_nan" THEN s_nan ELSE cell.text

\* gspread's get_all_records() yields texts ('' for an empty cell);
\* pandas.read_excel() yields NaN for an empty cell and for the text "nan"
SheetCells == {TextCell(s) : s \in {s_empty, s_nan, s_Nan, s_blank,
                                    s_scenarioA, s_c_java}}
ExcelCells == {TextCell(s) : s \in {s_Nan, s_blank, s_scenarioA, s_c_java}}
                  \cup {NaNCell}
Cells(v) == IF v = "sheet" THEN SheetCells ELSE ExcelCells

Pools(v) == UNION {[1..n -> Cells(v)] : n \in 0..MaxCand}

\* the source is unreachable, or readable without a Skills column, or readable
Sources(v) ==
    {[reachable |-> TRUE, has_skills |-> TRUE, rows |-> r] : r \in Pools(v)}
    \cup {[reachable |-> FALSE, has_skills |-> TRUE, rows |-> <<>>]}
    \cup {[reachable |-> TRUE, has_skills |-> FALSE, rows |-> r] :
              r \in {<<>>, <<TextCell(s_c_java)>>}}

ReqSkills == {s_Python, s_Java}

\* k copies of a followed by n - k copies of b
Run(a, b, k, n) == [i \in 1..n |-> IF i <= k THEN a ELSE b]

\* the required-skill lists of short job descriptions, Scenario A's among them
ShortLists ==
    UNION {[1..n -> ReqSkills] : n \in 0..MaxReq}
    \cup {<<s_Python, s_SQL, s_Docker>>}

\* the required-skill lists of job descriptions with many skills
LongLists ==
    {Run(s_Java, s_SQL, k, n) :
         k \in (MaxLong - 5)..MaxLong, n \in (MaxLong - 1)..MaxLong}

\* the calls: a short list against every source, a long list against the
\* sources of at most one record
Calls(v) ==
    (ShortLists \X Sources(v))
    \cup (LongLists \X {s \in Sources(v) : Len(s.rows) <= 1})

\* forms.py: IntegerField(min_value=0, max_value=100)
MinThreshold == 0
MaxThreshold == 100
Thresholds == {MinThreshold, 50, 81, MaxThreshold}

\* views.py
MAX_SESSION_CANDIDATES == 100
MAX_SESSION_SKILLS == 10

------------------------------------------------------------------------------
(* Match scorer *)

\* [skill.lower().strip() for skill in required_skills]
NormalizeSkills(skills) == [i \in 1..Len(skills) |-> PyStrip(PyLower(skills[i]))]

\* [s.lower().strip() for s in candidate_skills_str.split(',')]
ParseCandidateSkills(str) == NormalizeSkills(PySplit(str))

\* variant of IsSkipped that tests only for the empty text
IsSkipped_EmptyOnly(v, str) == str = <<>>

\* if not candidate_skills_str or candidate_skills_str == 'nan': continue
\* (the excel variant compares candidate_skills_str.lower())
IsSkipped(v, str) ==
    \/ str = <<>>
    \/ IF v = "sheet" THEN str = s_nan ELSE PyLower(str) = s_nan

\* variant of SkillMatches that compares for equality
SkillMatches_Exact(req_skill, cand_skill) == req_skill = cand_skill

\* if req_skill in cand_skill or cand_skill in req_skill
SkillMatches(req_skill, cand_skill) ==
    PyIn(req_skill, cand_skill) \/ PyIn(cand_skill, req_skill)

\* variant of ScanCandidate without the break: one append per satisfying token
RECURSIVE ScanCandidate_NoBreak(_, _, _, _)
ScanCandidate_NoBreak(req_skill, candidate_skills, j, matched_skills) ==
    IF j > Len(candidate_skills) THEN matched_skills
    ELSE ScanCandidate_NoBreak(req_skill, candidate_skills, j + 1,
             IF PyIn(req_skill, candidate_skills[j])
                    \/ PyIn(candidate_skills[j], req_skill)
             THEN Append(matched_skills, req_skill) ELSE matched_skills)

\* inner loop: scan the candidate tokens from position j; at the first hit
\* append req_skill and break
RECURSIVE ScanCandidate(_, _, _, _)
ScanCandidate(req_skill, candidate_skills, j, matched_skills) ==
    IF j > Len(candidate_skills) THEN matched_skills
    ELSE IF SkillMatches(req_skill, candidate_skills[j])
         THEN Append(matched_skills, req_skill)
         ELSE ScanCandidate(req_skill, candidate_skills, j + 1, matched_skills)

\* outer loop: one pass over required_skills_lower from position i
RECURSIVE ScanRequired(_, _, _, _)
ScanRequired(required_skills_lower, candidate_skills, i, matched_skills) ==
    IF i > Len(required_skills_lower) THEN matched_skills
    ELSE LET scanned == ScanCandidate(required_skills_lower[i],
                                      candidate_skills, 1, matched_skills)
         IN  IF Len(scanned) = Len(matched_skills)
             THEN ScanRequired(required_skills_lower, candidate_skills, i + 1,
                               matched_skills)
             ELSE ScanRequired(required_skills_lower, candidate_skills, i + 1,
                               scanned)

MatchedSkills(required_skills_lower, candidate_skills) ==
    ScanRequired(required_skills_lower, candidate_skills, 1, <<>>)

\* variant of MatchPercentage that counts an empty required list as satisfied
MatchPercentage_EmptyIsFull(matched, total) ==
    IF total # 0 THEN [num |-> 100 * matched, den |-> total]
    ELSE [num |-> 100, den |-> 1]

\* (len(matched_skills) / len(required_skills_lower)) * 100
\*     if required_skills_lower else 0
MatchPercentage(matched, total) ==
    IF total # 0 THEN [num |-> 100 * matched, den |-> total]
    ELSE [num |-> 0, den |-> 1]

\* variant of MeetsThreshold with a strict comparison
MeetsThreshold_Strict(p, threshold) == p.num > threshold * p.den

\* match_percentage >= min_match_percentage
MeetsThreshold(p, threshold) == p.num >= threshold * p.den

\* variant of Round1 that truncates
Round1_Truncate(p) == (10 * p.num) \div p.den

\* round(match_percentage, 1), in tenths; a tie goes to the even digit
Round1(p) ==
    LET q == (10 * p.num) \div p.den
        r == (10 * p.num) % p.den
    IN  IF 2 * r > p.den \/ (2 * r = p.den /\ q % 2 = 1) THEN q + 1 ELSE q

\* the candidate_data dict; row is the position of the record in the source
CandidateData(row, cell, matched_skills, p, total) ==
    [row |-> row,
     skills |-> cell,
     matched_skills |-> matched_skills,
     match_percentage |-> Round1(p),
     matched_skills_count |-> Len(matched_skills),
     total_required_skills |-> total]

\* list.sort(key=lambda x: x['match_percentage'], reverse=True): stable
RECURSIVE InsertDesc(_, _)
InsertDesc(sorted, x) ==
    IF sorted = <<>> THEN <<x>>
    ELSE IF Head(sorted).match_percentage >= x.match_percentage
         THEN <<Head(sorted)>> \o InsertDesc(Tail(sorted), x)
         ELSE <<x>> \o sorted

RECURSIVE SortFrom(_, _, _)
SortFrom(list, i, sorted) ==
    IF i > Len(list) THEN sorted
    ELSE SortFrom(list, i + 1, InsertDesc(sorted, list[i]))

\* variant of SortByMatchPercentage that leaves the list as it is
SortByMatchPercentage_NoSort(list) == list

\* variant of SortByMatchPercentage that puts a record before its equals
RECURSIVE InsertBeforeTies(_, _)
InsertBeforeTies(sorted, x) ==
    IF sorted = <<>> THEN <<x>>
    ELSE IF Head(sorted).match_percentage > x.match_percentage
         THEN <<Head(sorted)>> \o InsertBeforeTies(Tail(sorted), x)
         ELSE <<x>> \o sorted

RECURSIVE SortTiesReversedFrom(_, _, _)
SortTiesReversedFrom(list, i, sorted) ==
    IF i > Len(list) THEN sorted
    ELSE SortTiesReversedFrom(list, i + 1, InsertBeforeTies(sorted, list[i]))

SortByMatchPercentage_TiesReversed(list) == SortTiesReversedFrom(list, 1, <<>>)

SortByMatchPercentage(list) == SortFrom(list, 1, <<>>)

------------------------------------------------------------------------------
(* The request *)

\* session keys written by match_candidates
SessionKeys == {"matched_candidates", "output_file", "sheet_name",
                "total_matches", "jd_id"}

\* output_filename of the match_candidates view: title and time stamp
OutputFile == [title |-> "jd", stamp |-> 0]
NoFile == [title |-> "", stamp |-> 0]

\* a session without any of the keys; the field keys lists the keys present
EmptySession == [keys |-> {}, matched_candidates |-> <<>>,
                 output_file |-> NoFile, sheet_name |-> "",
                 total_matches |-> 0, jd_id |-> 0]

\* the entry of session_candidates built from one candidate_data
SessionCandidate(c) ==
    [row |-> c.row,
     match_percentage |-> c.match_percentage,
     matched_skills_count |-> c.matched_skills_count,
     total_required_skills |-> c.total_required_skills,
     matched_skills |-> PyTake(c.matched_skills, MAX_SESSION_SKILLS)]

SessionCandidates(list) ==
    LET head == PyTake(list, MAX_SESSION_CANDIDATES)
    IN  [i \in 1..Len(head) |-> SessionCandidate(head[i])]

\* what export_matched_candidates can leave at output_path
ExportOutcomes == {"written", "failed", "failed_partial"}

\* one ranker call, no earlier one
RepeatIdle ==
    /\ calls = 1
    /\ first_result = <<>>

\* no call of export_matched_candidates under observation
ColumnsIdle ==
    /\ export_pc = "idle"
    /\ df_columns = {}
    /\ blank_columns = {}
    /\ written_columns = <<>>

Users == {"u1", "u2"}

\* the cleared keys of a session: output_file, jd_id, matched_candidates
ClearedSession == [output_file |-> NoFile, jd_id |-> 0, has_candidates |-> FALSE]

\* nobody has asked for anything yet
WebIdle ==
    /\ now = 0
    /\ fs = {}
    /\ web_session = [u \in Users |-> ClearedSession]
    /\ response = [u \in Users |-> "none"]
    /\ runs = <<>>
    /\ served = [r \in 1..MaxRuns |-> 0]
    /\ retrieved = [u \in Users |-> FALSE]
    /\ superseded = [u \in Users |-> FALSE]

\* no language-model call and no result of one
NoOutput == [kind |-> "none", names |-> {}]
NoExtraction == [kind |-> "none", names |-> {}, sentinel |-> FALSE]

\* nothing uploaded yet, no Excel database yet
UploadIdle ==
    /\ uploads = 0
    /\ llm_output = NoOutput
    /\ extraction = NoExtraction
    /\ jd_db = {}
    /\ jd_files = {}
    /\ excel_db = [exists |-> FALSE, rows |-> <<>>]
    /\ upload_message = "none"
    /\ analyzed = <<>>

\* the columns a row has besides Skills, and the value of a missing column
FieldPool == {"name", "email", "cv_link", "status"}
Absent == [kind |-> "no_column", text |-> <<>>]

\* no candidate_data under construction
FieldsIdle ==
    /\ field_pc = "idle"
    /\ field_cols = [f \in FieldPool |-> Absent]
    /\ candidate_fields = [f \in FieldPool |-> Absent]

\* the two concurrent ranker calls
Invocations == {1, 2}

UnreadSource == [reachable |-> FALSE, has_skills |-> FALSE, rows |-> <<>>]

\* no concurrent ranker calls under observation
ConcIdle ==
    /\ shared_source = UnreadSource
    /\ invocation = [p \in Invocations |->
                        [variant |-> "sheet", required_skills |-> <<>>,
                         min_match_percentage |-> 50, pc |-> "idle",
                         idx |-> 0, result |-> <<>>]]
    /\ local_lists = [p \in Invocations |-> <<>>]

\* the two concurrent save_jd_to_excel calls; call p saves row p
Savers == {1, 2}

\* no concurrent save_jd_to_excel calls under observation
ArchiveIdle ==
    /\ saver = [p \in Savers |->
                   [pc |-> "idle", df_combined |-> <<>>, failed |-> FALSE]]
    /\ archive_before = <<>>

\* middleware.py: the limit and the window of RateLimitMiddleware
RATE_LIMIT == 30
RATE_WINDOW == 60

\* the threads of one server process
Handlers == {1, 2}

\* the readings of int(time.time())
Timestamps == {k * RATE_WINDOW : k \in 0..MaxWindows}

IdleHandler == [pc |-> "idle", user |-> "u1", current_time |-> 0]

\* RateLimitMiddleware.__init__, and no request yet
RateIdle ==
    /\ rate_now = 0
    /\ rate_limit_cache = [u \in Users |-> <<>>]
    /\ handler = [p \in Handlers |-> IdleHandler]

ExtraIdle ==
    /\ FieldsIdle
    /\ ConcIdle
    /\ ArchiveIdle
    /\ RateIdle

Init ==
    /\ variant \in {"sheet", "excel"}
    /\ \E call \in Calls(variant) :
           /\ required_skills = call[1]
           /\ source = call[2]
    /\ min_match_percentage \in Thresholds
    /\ pc = "call"
    /\ idx = 0
    /\ matched_candidates = <<>>
    /\ result = <<>>
    /\ message = "none"
    /\ redirect_to = "none"
    /\ session = EmptySession
    /\ media_files = {}
    /\ RepeatIdle
    /\ ColumnsIdle
    /\ WebIdle
    /\ UploadIdle
    /\ ExtraIdle

\* the except clause of the ranker left out: the exception leaves the ranker
ReturnEmpty_Raises ==
    /\ result' = <<>>
    /\ pc' = "raised"
    /\ UNCHANGED <<idx, matched_candidates>>

\* the ranker returns []
ReturnEmpty ==
    /\ result' = <<>>
    /\ pc' = "returned"
    /\ UNCHANGED <<idx, matched_candidates>>

\* sheet: df = fetch_google_sheet_data(sheet_id), which answers an empty
\*        DataFrame for every failure; if df.empty: return []
\* excel: df = pd.read_excel(path), which raises for an unreadable file;
\*        the except clause returns []
FetchSource ==
    /\ pc = "call"
    /\ IF ~source.reachable \/ (variant = "sheet" /\ source.rows = <<>>)
       THEN ReturnEmpty
       ELSE /\ pc' = "columns"
            /\ UNCHANGED <<idx, matched_candidates, result>>
    /\ UNCHANGED <<variant, source, required_skills, min_match_percentage,
                   message, redirect_to, session, media_files>>
    /\ UNCHANGED other_vars

\* the list matched_candidates = [] of a call left out: the list of the
\* earlier call is carried into the next one
CheckSkillsColumn_KeepsList ==
    /\ pc = "columns"
    /\ IF ~source.has_skills
       THEN ReturnEmpty
       ELSE /\ idx' = 1
            /\ pc' = "rows"
            /\ UNCHANGED <<result, matched_candidates>>
    /\ UNCHANGED <<variant, source, required_skills, min_match_percentage,
                   message, redirect_to, session, media_files>>
    /\ UNCHANGED other_vars

\* if 'Skills' not in df.columns: return []
CheckSkillsColumn ==
    /\ pc = "columns"
    /\ IF ~source.has_skills
       THEN ReturnEmpty
       ELSE /\ matched_candidates' = <<>>
            /\ idx' = 1
            /\ pc' = "rows"
            /\ UNCHANGED result
    /\ UNCHANGED <<variant, source, required_skills, min_match_percentage,
                   message, redirect_to, session, media_files>>
    /\ UNCHANGED other_vars

\* one iteration of for idx, row in df.iterrows()
ScoreRow ==
    /\ pc = "rows"
    /\ idx <= Len(source.rows)
    /\ LET cell == source.rows[idx]
           candidate_skills_str == PyStr(cell)
           required_skills_lower == NormalizeSkills(required_skills)
           candidate_skills == ParseCandidateSkills(candidate_skills_str)
           matched_skills == MatchedSkills(required_skills_lower, candidate_skills)
           match_percentage == MatchPercentage(Len(matched_skills),
                                               Len(required_skills_lower))
       IN  IF IsSkipped(variant, candidate_skills_str)
           THEN UNCHANGED matched_candidates
           ELSE IF MeetsThreshold(match_percentage, min_match_percentage)
                THEN matched_candidates' =
                         Append(matched_candidates,
                                CandidateData(idx, cell, matched_skills,
                                              match_percentage,
                                              Len(required_skills_lower)))
                ELSE UNCHANGED matched_candidates
    /\ idx' = idx + 1
    /\ UNCHANGED <<variant, source, required_skills, min_match_percentage, pc,
                   result, message, redirect_to, session, media_files>>
    /\ UNCHANGED other_vars

\* matched_candidates.sort(...); return matched_candidates
SortAndReturn ==
    /\ pc = "rows"
    /\ idx > Len(source.rows)
    /\ matched_candidates' = SortByMatchPercentage(matched_candidates)
    /\ result' = matched_candidates'
    /\ pc' = "returned"
    /\ UNCHANGED <<variant, source, required_skills, min_match_percentage, idx,
                   message, redirect_to, session, media_files>>
    /\ UNCHANGED other_vars

\* views.match_candidates after the ranker has returned: export, session,
\* message and redirect.  cleanup_old_matched_files(days=1) finds no file older
\* than a day here.
MatchCandidatesRespond ==
    /\ pc = "returned"
    /\ variant = "sheet"
    /\ IF result # <<>>
       THEN /\ \E outcome \in ExportOutcomes :
                  media_files' =
                      IF outcome = "failed" THEN media_files
                      ELSE media_files \cup
                               {[path |-> OutputFile,
                                 complete |-> (outcome = "written")]}
            /\ session' = [keys |-> SessionKeys,
                           matched_candidates |-> SessionCandidates(result),
                           output_file |-> OutputFile,
                           sheet_name |-> "sheet",
                           total_matches |-> Len(result),
                           jd_id |-> 1]
            /\ message' = "found"
            /\ redirect_to' = "show_matches"
       ELSE /\ message' = "no_candidates"
            /\ redirect_to' = "results"
            /\ UNCHANGED <<session, media_files>>
    /\ pc' = "responded"
    /\ UNCHANGED <<variant, source, required_skills, min_match_percentage, idx,
                   matched_candidates, result>>
    /\ UNCHANGED other_vars

Next ==
    \/ FetchSource
    \/ CheckSkillsColumn
    \/ ScoreRow
    \/ SortAndReturn
    \/ MatchCandidatesRespond

Spec == Init /\ [][Next]_vars

------------------------------------------------------------------------------
(* The ranker called twice on the same source with the same arguments *)

\* the caller keeps what the first call returned and calls the ranker again
\* with the same arguments; the source has not changed
CallAgain ==
    /\ pc = "returned"
    /\ calls = 1
    /\ first_result' = result
    /\ calls' = 2
    /\ pc' = "call"
    /\ idx' = 0
    /\ UNCHANGED <<variant, source, required_skills, min_match_percentage,
                   matched_candidates, result, message, redirect_to, session,
                   media_files>>
    /\ UNCHANGED <<column_vars, web_vars, upload_vars, extra_vars>>

RepeatNext ==
    \/ FetchSource
    \/ CheckSkillsColumn
    \/ ScoreRow
    \/ SortAndReturn
    \/ CallAgain

RepeatSpec == Init /\ [][RepeatNext]_vars

------------------------------------------------------------------------------
(* The two rankers called one after the other on the same records *)

OtherVariant(v) == IF v = "sheet" THEN "excel" ELSE "sheet"

\* the caller keeps what one ranker returned and calls the other ranker with
\* the same required skills and threshold on a source whose records carry
\* the same skills cells; the cells are cells both kinds of source can carry
CallOther ==
    /\ pc = "returned"
    /\ calls = 1
    /\ \A r \in 1..Len(source.rows) :
           source.rows[r] \in Cells(OtherVariant(variant))
    /\ first_result' = result
    /\ calls' = 2
    /\ variant' = OtherVariant(variant)
    /\ pc' = "call"
    /\ idx' = 0
    /\ UNCHANGED <<source, required_skills, min_match_percentage,
                   matched_candidates, result, message, redirect_to, session,
                   media_files>>
    /\ UNCHANGED <<column_vars, web_vars, upload_vars, extra_vars>>

PairNext ==
    \/ FetchSource
    \/ CheckSkillsColumn
    \/ ScoreRow
    \/ SortAndReturn
    \/ CallOther

PairSpec == Init /\ [][PairNext]_vars

------------------------------------------------------------------------------
(* export_matched_candidates: the columns of the exported sheet *)

\* no ranking request under observation
RankerIdle ==
    /\ variant = "sheet"
    /\ source = [reachable |-> FALSE, has_skills |-> FALSE, rows |-> <<>>]
    /\ required_skills = <<>>
    /\ min_match_percentage = 50
    /\ pc = "idle"
    /\ idx = 0
    /\ matched_candidates = <<>>
    /\ result = <<>>
    /\ message = "none"
    /\ redirect_to = "none"
    /\ session = EmptySession
    /\ media_files = {}

column_order ==
    <<"match_percentage", "matched_skills_count", "total_required_skills",
      "name", "email", "contact", "designation", "current_company",
      "experience", "location", "qualification", "linkedin",
      "skills", "matched_skills", "cv_link", "status">>

\* the keys of candidate_data the ranker builds
CandidateDataKeys == {column_order[i] : i \in 1..Len(column_order)}

\* keys a list of result records is given with: a few of the ranker's keys,
\* none, all of them, and one key column_order does not know
KeyPool == {"match_percentage", "name", "skills", "cv_link", "status", "notes"}

Frames ==
    {[columns |-> c, blank |-> b] :
        c \in (SUBSET KeyPool) \cup {CandidateDataKeys},
        b \in SUBSET {"name", "cv_link", "status"}}

\* columns without a value in any row dropped as well
ExportColumns_DropsBlank(columns) ==
    LET Exists(col) == col \in columns \ blank_columns
    IN  SelectSeq(column_order, Exists)

\* [col for col in column_order if col in df.columns]
ExportColumns(columns) ==
    LET Exists(col) == col \in columns
    IN  SelectSeq(column_order, Exists)

ColumnsInit ==
    /\ RankerIdle
    /\ RepeatIdle
    /\ WebIdle
    /\ UploadIdle
    /\ ExtraIdle
    /\ export_pc = "call"
    /\ \E f \in Frames :
           /\ f.blank \subseteq f.columns
           /\ df_columns = f.columns
           /\ blank_columns = f.blank
    /\ written_columns = <<>>

\* export_matched_candidates: df[column_order].to_excel(output_path); True,
\* or False when anything raised
ExportMatchedCandidates ==
    /\ export_pc = "call"
    /\ \E raised \in BOOLEAN :
           IF raised
           THEN /\ export_pc' = "False"
                /\ UNCHANGED written_columns
           ELSE /\ export_pc' = "True"
                /\ written_columns' = ExportColumns(df_columns)
    /\ UNCHANGED <<df_columns, blank_columns>>
    /\ UNCHANGED <<ranker_vars, repeat_vars, web_vars, upload_vars, extra_vars>>

ColumnsNext == ExportMatchedCandidates

ColumnsSpec == ColumnsInit /\ [][ColumnsNext]_vars

------------------------------------------------------------------------------
(* views.match_candidates and views.download_matched_file: the export file
   between the match run that writes it and the download that removes it *)

\* two users own a job description of the same title; one owns another
JobDescriptions ==
    {[pk |-> 1, created_by |-> "u1", title |-> "jd"],
     [pk |-> 2, created_by |-> "u2", title |-> "jd"],
     [pk |-> 3, created_by |-> "u2", title |-> "other"]}

\* request.user.is_staff
StaffUsers == {"u2"}

\* check_object_permission lets everybody in
check_object_permission_Open(u, jd) == TRUE

\* check_object_permission: False when obj.created_by != request.user and
\* not request.user.is_staff
check_object_permission(u, jd) ==
    ~(jd.created_by # u /\ u \notin StaffUsers)

\* f"matched_candidates_{jd.title.replace(' ', '_')}_{%Y%m%d_%H%M%S}.xlsx"
OutputFilename(jd, t) == [title |-> jd.title, stamp |-> t]

\* cleanup_old_matched_files(days=1)
CleanupDays == 1

\* cleanup_old_matched_files(days): the export files older than days days
\* are removed
cleanup_old_matched_files(files, days) ==
    {f \in files : now - f.mtime <= days * TicksPerDay}

\* df.to_excel(output_path) of a run: a file at the path is overwritten
WriteExport(files, path, run) ==
    {f \in files : f.path # path} \cup
        {[path |-> path, run |-> run, mtime |-> now]}

\* os.remove left out
OsRemove_KeepsFile(files, f) == files

\* os.remove(file_path)
OsRemove(files, f) == files \ {f}

WebInit ==
    /\ RankerIdle
    /\ RepeatIdle
    /\ ColumnsIdle
    /\ WebIdle
    /\ UploadIdle
    /\ ExtraIdle

\* a POST to match_candidates by user u for job description jd
MatchRun(u, jd) ==
    /\ Len(runs) < MaxRuns
    /\ IF ~check_object_permission(u, jd)
       THEN /\ response' = [response EXCEPT ![u] = "forbidden"]
            /\ UNCHANGED <<fs, web_session, runs, retrieved, superseded>>
       ELSE \E found \in BOOLEAN :
              IF ~found
              THEN \* nothing matched: a message and the redirect to results
                   \* (the except branch differs in the message only)
                   /\ response' = [response EXCEPT ![u] = "no_candidates"]
                   /\ retrieved' = [retrieved EXCEPT ![u] = FALSE]
                   /\ superseded' =
                          [superseded EXCEPT ![u] =
                              @ \/ (/\ web_session[u].jd_id = jd.pk
                                    /\ web_session[u].has_candidates)]
                   /\ UNCHANGED <<fs, web_session, runs>>
              ELSE LET path == OutputFilename(jd, now)
                       run == Len(runs) + 1
                   IN  /\ \E exported \in BOOLEAN :
                              fs' = cleanup_old_matched_files(
                                        IF exported
                                        THEN WriteExport(fs, path, run)
                                        ELSE fs,
                                        CleanupDays)
                       /\ web_session' =
                              [web_session EXCEPT ![u] =
                                  [output_file |-> path, jd_id |-> jd.pk,
                                   has_candidates |-> TRUE]]
                       /\ runs' = Append(runs, [user |-> u, path |-> path])
                       /\ response' = [response EXCEPT ![u] = "found"]
                       /\ retrieved' = [retrieved EXCEPT ![u] = FALSE]
                       /\ superseded' = [superseded EXCEPT ![u] = FALSE]
    /\ UNCHANGED <<now, served>>
    /\ UNCHANGED <<ranker_vars, repeat_vars, column_vars, upload_vars,
                   extra_vars>>

\* a GET of download_matched_file by user u for job description jd
DownloadMatchedFile(u, jd) ==
    /\ IF ~check_object_permission(u, jd)
       THEN /\ response' = [response EXCEPT ![u] = "forbidden"]
            /\ UNCHANGED <<fs, web_session, served, retrieved>>
       ELSE IF \/ web_session[u].jd_id # jd.pk
               \/ web_session[u].output_file = NoFile
               \/ ~\E f \in fs : f.path = web_session[u].output_file
            THEN /\ response' = [response EXCEPT ![u] = "not_found"]
                 /\ UNCHANGED <<fs, web_session, served, retrieved>>
            ELSE LET f == CHOOSE g \in fs : g.path = web_session[u].output_file
                 IN  \E raised \in BOOLEAN :
                       IF raised
                       THEN /\ response' = [response EXCEPT ![u] = "error"]
                            /\ UNCHANGED <<fs, web_session, served, retrieved>>
                       ELSE /\ fs' = OsRemove(fs, f)
                            /\ served' = [served EXCEPT ![f.run] = @ + 1]
                            /\ web_session' =
                                   [web_session EXCEPT ![u] = ClearedSession]
                            /\ response' = [response EXCEPT ![u] = "file"]
                            /\ retrieved' = [retrieved EXCEPT ![u] = TRUE]
    /\ UNCHANGED <<now, runs, superseded>>
    /\ UNCHANGED <<ranker_vars, repeat_vars, column_vars, upload_vars,
                   extra_vars>>

\* a GET of show_matches by user u for job description jd
ShowMatches(u, jd) ==
    /\ response' = [response EXCEPT ![u] =
           IF ~check_object_permission(u, jd) THEN "forbidden"
           ELSE IF web_session[u].jd_id # jd.pk THEN "invalid_session"
           ELSE "matches"]
    /\ UNCHANGED <<now, fs, web_session, runs, served, retrieved, superseded>>
    /\ UNCHANGED <<ranker_vars, repeat_vars, column_vars, upload_vars,
                   extra_vars>>

\* a GET of results by user u for job description jd
Results(u, jd) ==
    /\ response' = [response EXCEPT ![u] =
           IF ~check_object_permission(u, jd) THEN "forbidden"
           ELSE "results"]
    /\ UNCHANGED <<now, fs, web_session, runs, served, retrieved, superseded>>
    /\ UNCHANGED <<ranker_vars, repeat_vars, column_vars, upload_vars,
                   extra_vars>>

\* the clock advances
Tick ==
    /\ now < MaxClock
    /\ now' = now + 1
    /\ UNCHANGED <<fs, web_session, response, runs, served, retrieved,
                   superseded>>
    /\ UNCHANGED <<ranker_vars, repeat_vars, column_vars, upload_vars,
                   extra_vars>>

WebNext ==
    \/ \E u \in Users, jd \in JobDescriptions : MatchRun(u, jd)
    \/ \E u \in Users, jd \in JobDescriptions : DownloadMatchedFile(u, jd)
    \/ Tick

WebSpec == WebInit /\ [][WebNext]_vars

\* time passes; nothing schedules a request, and the sweep runs inside
\* match_candidates only
WebFairSpec == WebSpec /\ WF_vars(Tick)

\* the four views that take the key of a job description, within one second
ViewNext ==
    \/ \E u \in Users, jd \in JobDescriptions : Results(u, jd)
    \/ \E u \in Users, jd \in JobDescriptions : MatchRun(u, jd)
    \/ \E u \in Users, jd \in JobDescriptions : ShowMatches(u, jd)
    \/ \E u \in Users, jd \in JobDescriptions : DownloadMatchedFile(u, jd)

ViewSpec == WebInit /\ [][ViewNext]_vars

------------------------------------------------------------------------------
(* views.upload_jd: extract_skills_from_jd and save_jd_to_excel *)

\* the keys extract_skills_from_jd tests for, in the order it tests them
ExpectedKeys ==
    <<"linkedin_optimized_skills", "all_skills", "skill_categories",
      "role_category", "experience_level", "key_responsibilities",
      "qualifications">>

ExpectedKeySet == {ExpectedKeys[i] : i \in 1..Len(ExpectedKeys)}

\* the keys of get_default_error_response()
SentinelKeys == ExpectedKeySet \ {"linkedin_optimized_skills"}

\* get_default_error_response(): all_skills is the error text, role_category
\* and experience_level are "Unknown"
get_default_error_response ==
    [kind |-> "object", names |-> SentinelKeys, sentinel |-> TRUE]

\* the expected keys an output names: all, all but one, or none
NameSets ==
    {ExpectedKeySet, {}} \cup {ExpectedKeySet \ {k} : k \in ExpectedKeySet}

\* what a language-model call can come to: the client cannot be built, the
\* API call raises, or the cleaned content is no JSON, a JSON object with
\* the keys names, a JSON string whose text holds the key names names, a
\* JSON array with the elements names, a JSON number or null
LlmOutputs ==
    {[kind |-> k, names |-> {}] :
        k \in {"client_error", "api_error", "not_json", "number", "null"}}
    \cup {[kind |-> k, names |-> n] :
              k \in {"object", "string", "array"}, n \in NameSets}

\* key in result: a key of a dict, a substring of a str, an element of a
\* list; a TypeError for a number and for None
PyContains(out, key) == key \in out.names

\* extract_skills_from_jd.  result = json.loads(cleaned); a missing key is
\* given its default by result.get and result[key] = ..., which raise for
\* everything but a dict; every exception ends in the sentinel
ExtractSkillsFromJd(out) ==
    CASE out.kind \in {"client_error", "api_error", "not_json"} ->
             get_default_error_response
      [] out.kind \in {"number", "null"} ->
             get_default_error_response
      [] out.kind = "object" ->
             [kind |-> "object", names |-> out.names \cup ExpectedKeySet,
              sentinel |-> FALSE]
      [] OTHER ->
             IF \A i \in 1..Len(ExpectedKeys) : PyContains(out, ExpectedKeys[i])
             THEN [kind |-> out.kind, names |-> out.names, sentinel |-> FALSE]
             ELSE get_default_error_response

\* save_jd_to_excel(jd_data).  An existing file that cannot be read is
\* replaced by the new row alone; an error of mkdir or to_excel is printed
\* and nothing is written
save_jd_to_excel(db, row, readable, written) ==
    LET df_combined == IF db.exists /\ readable
                       THEN Append(db.rows, row)
                       ELSE <<row>>
    IN  IF written
        THEN [exists |-> TRUE, rows |-> df_combined]
        ELSE db

\* jd.delete() left out of the failure paths
DiscardUpload_KeepsRow(db, pk) == db

\* jd.delete()
DiscardUpload(db, pk) == {jd \in db : jd.pk # pk}

\* jd.save() of the new JobDescription, before the analysis
CreateUpload(db, pk) == db \cup {[pk |-> pk, sentinel |-> FALSE]}

\* if os.path.exists(file_path): os.remove(file_path)
RemoveUploadedFile(files, pk) == files \ {pk}

UploadInit ==
    /\ RankerIdle
    /\ RepeatIdle
    /\ ColumnsIdle
    /\ WebIdle
    /\ UploadIdle
    /\ ExtraIdle

\* a POST to upload_jd with a valid form and file
UploadJd ==
    /\ uploads < MaxUploads
    /\ uploads' = uploads + 1
    /\ LET pk == uploads + 1
       IN  \E has_text \in BOOLEAN, out \in LlmOutputs,
              readable \in BOOLEAN, written \in BOOLEAN :
             IF ~has_text
             THEN \* not jd_text: the file is removed, jd.delete()
                  /\ upload_message' = "no_text"
                  /\ llm_output' = NoOutput
                  /\ extraction' = NoExtraction
                  /\ jd_db' = DiscardUpload(CreateUpload(jd_db, pk), pk)
                  /\ jd_files' = RemoveUploadedFile(jd_files \cup {pk}, pk)
                  /\ UNCHANGED <<excel_db, analyzed>>
             ELSE LET skills == ExtractSkillsFromJd(out)
                  IN  /\ llm_output' = out
                      /\ extraction' = skills
                      /\ IF skills.kind # "object"
                         THEN \* result.get raises AttributeError: the
                              \* except clause removes the file and the row
                              /\ upload_message' = "error"
                              /\ jd_db' = DiscardUpload(CreateUpload(jd_db, pk),
                                                        pk)
                              /\ jd_files' =
                                     RemoveUploadedFile(jd_files \cup {pk}, pk)
                              /\ UNCHANGED <<excel_db, analyzed>>
                         ELSE /\ jd_db' = DiscardUpload(CreateUpload(jd_db, pk),
                                                        pk) \cup
                                     {[pk |-> pk, sentinel |-> skills.sentinel]}
                              /\ jd_files' = jd_files \cup {pk}
                              /\ excel_db' = save_jd_to_excel(excel_db, pk,
                                                              readable, written)
                              /\ upload_message' = "success"
                              /\ analyzed' = Append(analyzed, pk)
    /\ UNCHANGED <<ranker_vars, repeat_vars, column_vars, web_vars, extra_vars>>

UploadNext == UploadJd

UploadSpec == UploadInit /\ [][UploadNext]_vars

------------------------------------------------------------------------------
(* candidate_data: the candidate fields copied from the row *)

s_NA == <<"N", "/", "A">>

\* what a row can hold for a field: no such column, an empty cell as gspread
\* gives it (''), an empty cell as pandas.read_excel gives it (NaN), a text
FieldCells == {Absent, TextCell(s_empty), NaNCell, TextCell(s_Java)}

\* row.get(column, 'N/A')
RowGet(row, column) ==
    IF row[column] = Absent THEN TextCell(s_NA) ELSE row[column]

FieldsInit ==
    /\ RankerIdle
    /\ RepeatIdle
    /\ ColumnsIdle
    /\ WebIdle
    /\ UploadIdle
    /\ ConcIdle
    /\ ArchiveIdle
    /\ RateIdle
    /\ field_pc = "row"
    /\ field_cols \in [FieldPool -> FieldCells]
    /\ candidate_fields = [f \in FieldPool |-> Absent]

\* candidate_data = {'name': row.get('Name', 'N/A'), ...}
BuildCandidateData ==
    /\ field_pc = "row"
    /\ candidate_fields' = [f \in FieldPool |-> RowGet(field_cols, f)]
    /\ field_pc' = "built"
    /\ UNCHANGED field_cols
    /\ UNCHANGED <<ranker_vars, repeat_vars, column_vars, web_vars, upload_vars>>
    /\ UNCHANGED <<conc_vars, archive_vars, rate_vars>>

FieldsNext == BuildCandidateData

FieldsSpec == FieldsInit /\ [][FieldsNext]_vars

------------------------------------------------------------------------------
(* Two ranker calls running concurrently on one source *)

\* the sources and arguments of the concurrent calls
ConcCells == {TextCell(s_c_java), TextCell(s_blank), TextCell(s_Nan)}

ConcSources ==
    {[reachable |-> TRUE, has_skills |-> TRUE, rows |-> r] :
        r \in UNION {[1..n -> ConcCells] : n \in 0..MaxCand}}
    \cup {[reachable |-> FALSE, has_skills |-> TRUE, rows |-> <<>>],
          [reachable |-> TRUE, has_skills |-> FALSE,
           rows |-> <<TextCell(s_c_java)>>]}

ConcArguments ==
    [variant : {"sheet", "excel"},
     required_skills : {<<>>, <<s_Java>>, <<s_Python, s_Java>>},
     min_match_percentage : {MinThreshold, 50}]

\* one list for both calls, as a module-level list would be
ListOf_Shared(p) == 1

\* matched_candidates is a local variable: every call has its own list
ListOf(p) == p

\* the body of the loop for the row at position i: the list afterwards
AfterRow(v, cell, i, required, threshold, list) ==
    LET candidate_skills_str == PyStr(cell)
        required_skills_lower == NormalizeSkills(required)
        candidate_skills == ParseCandidateSkills(candidate_skills_str)
        matched_skills == MatchedSkills(required_skills_lower, candidate_skills)
        match_percentage == MatchPercentage(Len(matched_skills),
                                            Len(required_skills_lower))
    IN  IF IsSkipped(v, candidate_skills_str) THEN list
        ELSE IF MeetsThreshold(match_percentage, threshold)
             THEN Append(list, CandidateData(i, cell, matched_skills,
                                             match_percentage,
                                             Len(required_skills_lower)))
             ELSE list

ConcInit ==
    /\ RankerIdle
    /\ RepeatIdle
    /\ ColumnsIdle
    /\ WebIdle
    /\ UploadIdle
    /\ FieldsIdle
    /\ ArchiveIdle
    /\ RateIdle
    /\ shared_source \in ConcSources
    /\ \E args \in [Invocations -> ConcArguments] :
           invocation = [p \in Invocations |->
                            [variant |-> args[p].variant,
                             required_skills |-> args[p].required_skills,
                             min_match_percentage |->
                                 args[p].min_match_percentage,
                             pc |-> "call", idx |-> 0, result |-> <<>>]]
    /\ local_lists = [p \in Invocations |-> <<>>]

\* what call p leaves alone
ConcFrame ==
    /\ UNCHANGED shared_source
    /\ UNCHANGED <<ranker_vars, repeat_vars, column_vars, web_vars, upload_vars,
                   field_vars, archive_vars, rate_vars>>

\* call p reads the source
ConcFetchSource(p) ==
    LET me == invocation[p]
    IN  /\ me.pc = "call"
        /\ invocation' =
               [invocation EXCEPT ![p] =
                   IF \/ ~shared_source.reachable
                      \/ me.variant = "sheet" /\ shared_source.rows = <<>>
                   THEN [me EXCEPT !.pc = "returned", !.result = <<>>]
                   ELSE [me EXCEPT !.pc = "columns"]]
        /\ UNCHANGED local_lists
        /\ ConcFrame

\* call p looks for the Skills column and starts its list
ConcCheckSkillsColumn(p) ==
    LET me == invocation[p]
    IN  /\ me.pc = "columns"
        /\ IF ~shared_source.has_skills
           THEN /\ invocation' = [invocation EXCEPT ![p] =
                       [me EXCEPT !.pc = "returned", !.result = <<>>]]
                /\ UNCHANGED local_lists
           ELSE /\ invocation' = [invocation EXCEPT ![p] =
                       [me EXCEPT !.pc = "rows", !.idx = 1]]
                /\ local_lists' = [local_lists EXCEPT ![ListOf(p)] = <<>>]
        /\ ConcFrame

\* call p scores one row
ConcScoreRow(p) ==
    LET me == invocation[p]
    IN  /\ me.pc = "rows"
        /\ me.idx <= Len(shared_source.rows)
        /\ local_lists' =
               [local_lists EXCEPT ![ListOf(p)] =
                   AfterRow(me.variant, shared_source.rows[me.idx], me.idx,
                            me.required_skills, me.min_match_percentage, @)]
        /\ invocation' = [invocation EXCEPT ![p] =
                             [me EXCEPT !.idx = me.idx + 1]]
        /\ ConcFrame

\* call p sorts its list and returns it
ConcSortAndReturn(p) ==
    LET me == invocation[p]
        sorted == SortByMatchPercentage(local_lists[ListOf(p)])
    IN  /\ me.pc = "rows"
        /\ me.idx > Len(shared_source.rows)
        /\ local_lists' = [local_lists EXCEPT ![ListOf(p)] = sorted]
        /\ invocation' = [invocation EXCEPT ![p] =
                             [me EXCEPT !.pc = "returned", !.result = sorted]]
        /\ ConcFrame

ConcNext ==
    \E p \in Invocations :
        \/ ConcFetchSource(p)
        \/ ConcCheckSkillsColumn(p)
        \/ ConcScoreRow(p)
        \/ ConcSortAndReturn(p)

ConcSpec == ConcInit /\ [][ConcNext]_vars

------------------------------------------------------------------------------
(* Two save_jd_to_excel calls running concurrently *)

\* rows the Excel database holds before the two calls
EarlierRows == {<<>>, <<10>>, <<10, 11>>}

ArchiveInit ==
    /\ RankerIdle
    /\ RepeatIdle
    /\ ColumnsIdle
    /\ WebIdle
    /\ FieldsIdle
    /\ ConcIdle
    /\ RateIdle
    /\ uploads = 0
    /\ llm_output = NoOutput
    /\ extraction = NoExtraction
    /\ jd_db = {}
    /\ jd_files = {}
    /\ upload_message = "none"
    /\ analyzed = <<>>
    /\ \E rows \in EarlierRows, exists \in BOOLEAN :
           /\ rows # <<>> => exists
           /\ excel_db = [exists |-> exists, rows |-> rows]
           /\ archive_before = rows
    /\ saver = [p \in Savers |->
                   [pc |-> "start", df_combined |-> <<>>, failed |-> FALSE]]

ArchiveFrame ==
    /\ UNCHANGED archive_before
    /\ UNCHANGED <<uploads, llm_output, extraction, jd_db, jd_files,
                   upload_message, analyzed>>
    /\ UNCHANGED <<ranker_vars, repeat_vars, column_vars, web_vars, field_vars,
                   conc_vars, rate_vars>>

\* call p: if excel_path.exists(): pd.read_excel and pd.concat, or df_new
\* when the file is missing or cannot be read
SaveRead(p) ==
    /\ saver[p].pc = "start"
    /\ \E readable \in BOOLEAN :
           saver' = [saver EXCEPT ![p] =
               [pc |-> "combined",
                df_combined |-> IF excel_db.exists /\ readable
                                THEN Append(excel_db.rows, p)
                                ELSE <<p>>,
                failed |-> excel_db.exists /\ ~readable]]
    /\ UNCHANGED excel_db
    /\ ArchiveFrame

\* call p: df_combined.to_excel(excel_path), or the error is printed
SaveWrite(p) ==
    /\ saver[p].pc = "combined"
    /\ \E written \in BOOLEAN :
           /\ excel_db' = IF written
                          THEN [exists |-> TRUE,
                                rows |-> saver[p].df_combined]
                          ELSE excel_db
           /\ saver' = [saver EXCEPT ![p] =
                  [@ EXCEPT !.pc = "done", !.failed = @ \/ ~written]]
    /\ ArchiveFrame

ArchiveNext ==
    \E p \in Savers : SaveRead(p) \/ SaveWrite(p)

ArchiveSpec == ArchiveInit /\ [][ArchiveNext]_vars

------------------------------------------------------------------------------
(* middleware.RateLimitMiddleware: the POSTs of two users in the threads of
   one server process *)

RateInit ==
    /\ RankerIdle
    /\ RepeatIdle
    /\ ColumnsIdle
    /\ WebIdle
    /\ UploadIdle
    /\ FieldsIdle
    /\ ConcIdle
    /\ ArchiveIdle
    /\ RateIdle

RateFrame ==
    UNCHANGED <<ranker_vars, repeat_vars, column_vars, web_vars, upload_vars,
                field_vars, conc_vars, archive_vars>>

\* [timestamp for timestamp in cache if current_time - timestamp < 60]
RECURSIVE CleanOldEntries(_, _)
CleanOldEntries(entries, current_time) ==
    IF entries = <<>> THEN <<>>
    ELSE LET rest == CleanOldEntries(Tail(entries), current_time)
         IN  IF current_time - Head(entries) < RATE_WINDOW
             THEN <<Head(entries)>> \o rest
             ELSE rest

\* the POSTs on record and under way
PostsAtHand ==
    Len(rate_limit_cache["u1"]) + Len(rate_limit_cache["u2"])
        + Cardinality({p \in Handlers : handler[p].pc # "idle"})

\* thread p takes a POST of user u: current_time is read, the key is
\* created and the old entries are cleaned
RateClean(p, u) ==
    /\ handler[p].pc = "idle"
    /\ PostsAtHand < MaxPosts
    /\ handler' = [handler EXCEPT ![p] =
           [pc |-> "cleaned", user |-> u, current_time |-> rate_now]]
    /\ rate_limit_cache' = [rate_limit_cache EXCEPT ![u] =
           CleanOldEntries(@, rate_now)]
    /\ UNCHANGED rate_now
    /\ RateFrame

\* thread p: if len(cache[user_key]) >= 30, the redirect
RateCheck(p) ==
    /\ handler[p].pc = "cleaned"
    /\ handler' = [handler EXCEPT ![p] =
           IF Len(rate_limit_cache[handler[p].user]) >= RATE_LIMIT
           THEN IdleHandler
           ELSE [@ EXCEPT !.pc = "checked"]]
    /\ UNCHANGED <<rate_now, rate_limit_cache>>
    /\ RateFrame

\* thread p: cache[user_key].append(current_time) and get_response(request)
RateAppend(p) ==
    /\ handler[p].pc = "checked"
    /\ LET u == handler[p].user
           t == handler[p].current_time
       IN  rate_limit_cache' = [rate_limit_cache EXCEPT ![u] = Append(@, t)]
    /\ handler' = [handler EXCEPT ![p] = IdleHandler]
    /\ UNCHANGED rate_now
    /\ RateFrame

\* a window goes by
RateTick ==
    /\ rate_now + RATE_WINDOW \in Timestamps
    /\ rate_now' = rate_now + RATE_WINDOW
    /\ UNCHANGED <<rate_limit_cache, handler>>
    /\ RateFrame

RateNext ==
    \/ \E p \in Handlers, u \in Users : RateClean(p, u)
    \/ \E p \in Handlers : RateCheck(p)
    \/ \E p \in Handlers : RateAppend(p)
    \/ RateTick

RateSpec == RateInit /\ [][RateNext]_vars

------------------------------------------------------------------------------
(* Vocabulary of the properties *)

\* the ranker has returned
Returned == pc \in {"returned", "responded"}

\* the source was read and has a Skills column
SourceRead == source.reachable /\ source.has_skills

\* skills text of source record r
SkillsText(r) == PyStr(source.rows[r])

\* the records the ranker hands to the scorer: the text is not empty and not
\* "nan"; for the excel variant, not a letter-case variant of "nan" either
Scored(r) ==
    /\ SkillsText(r) # s_empty
    /\ SkillsText(r) # s_nan
    /\ variant = "excel" => PyLower(SkillsText(r)) # s_nan

\* positions of the result whose record is source record r
Entries(r) == {i \in 1..Len(result) : result[i].row = r}

\* some candidate token and the required skill contain one another
Satisfied(req, tokens) ==
    \E j \in 1..Len(tokens) : PyIn(req, tokens[j]) \/ PyIn(tokens[j], req)

\* the required skills, normalized, that the tokens satisfy, in list order
SatisfiedSkills(reqs, tokens) ==
    LET norm == [i \in 1..Len(reqs) |-> PyStrip(PyLower(reqs[i]))]
        Test(r) == Satisfied(r, tokens)
    IN  SelectSeq(norm, Test)

\* number of required skills record r satisfies
SatisfiedCount(r) ==
    Len(SatisfiedSkills(required_skills, ParseCandidateSkills(SkillsText(r))))

\* m tenths is count/total x 100 rounded to one decimal (ties to even)
IsRounded(m, count, total) ==
    LET d == 1000 * count - m * total
        a == IF d < 0 THEN -d ELSE d
    IN  \/ 2 * a < total
        \/ 2 * a = total /\ m % 2 = 0

\* the percentage reported for a record satisfying count of total skills
Reported(count, total) ==
    IF total = 0 THEN 0
    ELSE CHOOSE m \in 0..1000 : IsRounded(m, count, total)

------------------------------------------------------------------------------
(* Properties *)

\* C1: every entry of the returned list has match_percentage >= the supplied
\* threshold, and the list is sorted non-increasing by match_percentage.
C1_ThresholdAndOrder ==
    Returned =>
        /\ \A i \in 1..Len(result) :
               result[i].match_percentage >= 10 * min_match_percentage
        /\ \A i, j \in 1..Len(result) :
               i < j => result[i].match_percentage >= result[j].match_percentage

\* two entries that the sort had to exchange, under a positive threshold
C1_Witness ==
    /\ Returned
    /\ min_match_percentage > 0
    /\ Len(result) >= 2
    /\ result[1].row > result[2].row
    /\ result[1].match_percentage > result[2].match_percentage

\* C2: a record whose skills text is empty or "nan" is never ranked, whatever
\* the required skills and the threshold (threshold 0 included).
C2_NoSkillsNeverRanked ==
    \A r \in 1..Len(source.rows) :
        SkillsText(r) \in {s_empty, s_nan} =>
            /\ \A i \in 1..Len(matched_candidates) : matched_candidates[i].row # r
            /\ Entries(r) = {}

\* threshold 0, a record without skills next to a ranked one
C2_Witness ==
    /\ Returned
    /\ SourceRead
    /\ min_match_percentage = 0
    /\ result # <<>>
    /\ \E r \in 1..Len(source.rows) : SkillsText(r) \in {s_empty, s_nan}

\* Scenario A: ["Python", "SQL", "Docker"] against
\* "Python, MySQL, Docker, Communication" with threshold 50
ScenarioA ==
    /\ SourceRead
    /\ source.rows = <<TextCell(s_scenarioA)>>
    /\ required_skills = <<s_Python, s_SQL, s_Docker>>
    /\ min_match_percentage = 50

\* C3 as stated: in Scenario A the candidate is returned with matched skills
\* exactly ["python", "docker"], 2 of 3 matched and 66.7 percent.
C3_ScenarioA_AsStated ==
    (Returned /\ ScenarioA) =>
        /\ Len(result) = 1
        /\ result[1].matched_skills = <<s_python, s_docker>>
        /\ result[1].matched_skills_count = 2
        /\ result[1].total_required_skills = 3
        /\ result[1].match_percentage = 667

\* C3 amended: in Scenario A the candidate is returned with matched skills
\* ["python", "sql", "docker"] ("sql" is a substring of "mysql"), 3 of 3
\* matched and 100.0 percent.
C3_ScenarioA ==
    (Returned /\ ScenarioA) =>
        /\ Len(result) = 1
        /\ result[1].matched_skills = <<s_python, s_sql, s_docker>>
        /\ result[1].matched_skills_count = 3
        /\ result[1].total_required_skills = 3
        /\ result[1].match_percentage = 1000

C3_Witness == Returned /\ ScenarioA /\ Len(result) = 1

\* C4: the matched-skills list of a ranked candidate is exactly the normalized
\* required skills, in list order, that some normalized candidate token
\* contains or is contained in; one entry per position of the list.
C4_MatchedSkillsRule ==
    \A i \in 1..Len(matched_candidates) :
        matched_candidates[i].matched_skills =
            SatisfiedSkills(required_skills,
                            ParseCandidateSkills(PyStr(matched_candidates[i].skills)))

\* a ranked candidate with a required skill that two tokens satisfy and
\* another required skill that none satisfies
C4_Witness ==
    /\ Returned
    /\ \E i \in 1..Len(result) :
           LET tokens == ParseCandidateSkills(PyStr(result[i].skills))
               norm == NormalizeSkills(required_skills)
           IN  /\ \E q \in 1..Len(norm) :
                      Cardinality({j \in 1..Len(tokens) :
                                       PyIn(norm[q], tokens[j])
                                           \/ PyIn(tokens[j], norm[q])}) >= 2
               /\ \E q \in 1..Len(norm) : ~Satisfied(norm[q], tokens)

\* C5: a scored record is in the returned list exactly once if the match
\* percentage reported for it is >= the threshold, and not at all otherwise.
C5_IncludedIffReported ==
    (Returned /\ SourceRead) =>
        \A r \in 1..Len(source.rows) :
            Scored(r) =>
                Cardinality(Entries(r)) =
                    IF Reported(SatisfiedCount(r), Len(required_skills))
                           >= 10 * min_match_percentage
                    THEN 1 ELSE 0

\* C6: entries with equal match_percentage keep the order of their records in
\* the source.
C6_StableTies ==
    Returned =>
        \A i, j \in 1..Len(result) :
            (i < j /\ result[i].match_percentage = result[j].match_percentage)
                => result[i].row < result[j].row

\* two different candidates with the same percentage
C6_Witness ==
    /\ Returned
    /\ Len(result) >= 2
    /\ result[1].match_percentage = result[2].match_percentage
    /\ result[1].skills # result[2].skills

\* C7: when the source could not be read, the caller is told so: the view
\* does not answer with the message it uses for "no candidate matched".
C7_SourceFailureSignalled ==
    (pc = "responded" /\ ~SourceRead) => message # "no_candidates"

\* C8: with an empty required-skill list every ranked candidate has percentage
\* 0 and no matched skill, and a scored record is ranked exactly when the
\* threshold is 0.
C8_EmptyRequired ==
    (Returned /\ SourceRead /\ required_skills = <<>>) =>
        /\ \A i \in 1..Len(result) :
               /\ result[i].match_percentage = 0
               /\ result[i].matched_skills = <<>>
               /\ result[i].matched_skills_count = 0
               /\ result[i].total_required_skills = 0
        /\ \A r \in 1..Len(source.rows) :
               Scored(r) => (Entries(r) # {} <=> min_match_percentage = 0)

C8_Witness ==
    /\ Returned
    /\ SourceRead
    /\ required_skills = <<>>
    /\ min_match_percentage = 0
    /\ result # <<>>

\* C9 as stated: threshold 0 ranks every record whose skills text is neither
\* empty nor "nan"; threshold 100 ranks exactly those of them that satisfy
\* every required skill.
C9_Boundaries_AsStated ==
    (Returned /\ SourceRead) =>
        \A r \in 1..Len(source.rows) :
            LET scoreable == SkillsText(r) \notin {s_empty, s_nan}
            IN  /\ min_match_percentage = MinThreshold =>
                       (scoreable => Entries(r) # {})
                /\ min_match_percentage = MaxThreshold =>
                       (Entries(r) # {} <=>
                            scoreable /\ SatisfiedCount(r) = Len(required_skills))

\* C9 amended: threshold 0 ranks exactly the scored records (text not empty,
\* not "nan" and, for the excel variant, no letter-case variant of "nan");
\* threshold 100 ranks exactly the scored records that satisfy every required
\* skill of a non-empty required-skill list, and none when the list is empty.
C9_Boundaries ==
    (Returned /\ SourceRead) =>
        \A r \in 1..Len(source.rows) :
            /\ min_match_percentage = MinThreshold =>
                   (Entries(r) # {} <=> Scored(r))
            /\ min_match_percentage = MaxThreshold =>
                   (Entries(r) # {} <=>
                        /\ Scored(r)
                        /\ required_skills # <<>>
                        /\ SatisfiedCount(r) = Len(required_skills))

\* threshold 100: one record ranked, another scored but left out
C9_Witness ==
    /\ Returned
    /\ SourceRead
    /\ min_match_percentage = MaxThreshold
    /\ result # <<>>
    /\ \E r \in 1..Len(source.rows) : Scored(r) /\ Entries(r) = {}

\* C10: match_percentage is matched_skills_count / total_required_skills x 100
\* rounded to one decimal, from the counts reported in the same entry (0 when
\* there is no required skill).
C10_PercentageFromCounts ==
    \A i \in 1..Len(matched_candidates) :
        LET c == matched_candidates[i]
        IN  /\ c.matched_skills_count = Len(c.matched_skills)
            /\ c.total_required_skills = Len(required_skills)
            /\ c.total_required_skills = 0 => c.match_percentage = 0
            /\ c.total_required_skills > 0 =>
                   IsRounded(c.match_percentage, c.matched_skills_count,
                             c.total_required_skills)

\* a percentage that rounding moved up
C10_Witness ==
    /\ Returned
    /\ \E i \in 1..Len(result) :
           /\ result[i].total_required_skills > 0
           /\ result[i].match_percentage * result[i].total_required_skills
                  > 1000 * result[i].matched_skills_count

\* C11: in every entry the matched skills are normalized required skills,
\* matched_skills_count is their number and at most total_required_skills,
\* which is the length of the required-skill list, and match_percentage lies
\* between 0 and 100; duplicates in the required-skill list change nothing.
C11_EntryInvariants ==
    \A i \in 1..Len(matched_candidates) :
        LET c == matched_candidates[i]
            norm == {PyStrip(PyLower(required_skills[q])) :
                         q \in 1..Len(required_skills)}
        IN  /\ \A q \in 1..Len(c.matched_skills) : c.matched_skills[q] \in norm
            /\ c.matched_skills_count = Len(c.matched_skills)
            /\ c.matched_skills_count <= c.total_required_skills
            /\ c.total_required_skills = Len(required_skills)
            /\ c.match_percentage >= 0
            /\ c.match_percentage <= 10 * MaxThreshold

\* a required-skill list with a duplicate, every position of it matched
C11_Witness ==
    /\ Returned
    /\ Len(required_skills) >= 2
    /\ required_skills[1] = required_skills[2]
    /\ \E i \in 1..Len(result) :
           /\ result[i].matched_skills_count = Len(required_skills)
           /\ Cardinality({j \in 1..Len(ParseCandidateSkills(PyStr(result[i].skills))) :
                  PyIn(PyStrip(PyLower(required_skills[1])),
                       ParseCandidateSkills(PyStr(result[i].skills))[j])}) >= 2

\* C14: when writing the export fails the request does not go on as if the
\* file existed (no "found" answer) and nothing is left at the output path.
C14_ExportFailureSurfaced ==
    (pc = "responded" /\ result # <<>>
         /\ ~(\E f \in media_files : f.complete)) =>
        (message # "found" /\ media_files = {})

\* an upper bound of the number of steps the request has left
StepsLeft ==
    CASE pc = "call" -> Len(source.rows) + 4
      [] pc = "columns" -> Len(source.rows) + 3
      [] pc = "rows" -> Len(source.rows) - idx + 3
      [] pc = "returned" -> 1
      [] OTHER -> 0

\* the ranker can take a step; the loop body is defined for every row, so it
\* can be taken whenever a row is left
CanStep ==
    \/ ENABLED FetchSource
    \/ ENABLED CheckSkillsColumn
    \/ ENABLED SortAndReturn
    \/ pc = "rows" /\ idx \in 1..Len(source.rows)

\* C16: whatever is wrong with the input data (unreadable source, no Skills
\* column, empty or "nan" skills text, empty required-skill list), the ranker
\* terminates and returns a list; no exception leaves it.
\* Stated as progress with a variant: until the ranker has returned a step is
\* possible, and every step lowers StepsLeft, a natural number.
C16_RankerAlwaysReturns ==
    /\ [](Returned \/ CanStep)
    /\ [](StepsLeft \in Nat)
    /\ [][StepsLeft' < StepsLeft]_vars

\* the ranker has returned [] for a source without a Skills column
C16_Witness ==
    /\ pc = "returned"
    /\ source.reachable
    /\ ~source.has_skills
    /\ result = <<>>

\* C20: a second ranker call on the unchanged source with the same required
\* skills and threshold returns the same ordered list as the first.
C20_Idempotent ==
    (calls = 2 /\ pc = "returned") => result = first_result

\* a second call has returned a list of two entries
C20_Witness ==
    /\ calls = 2
    /\ pc = "returned"
    /\ Len(result) >= 2
    /\ result = first_result

\* position of a column in the fixed order, 0 for a column it does not hold
OrderIndex(col) ==
    IF \E i \in 1..Len(column_order) : column_order[i] = col
    THEN CHOOSE i \in 1..Len(column_order) : column_order[i] = col
    ELSE 0

\* C15: the exported sheet has exactly the columns of the fixed order that
\* the result records have, each once, in the fixed order; a column that is
\* blank in every row is written like any other.
C15_FixedColumnOrder ==
    export_pc = "True" =>
        /\ {written_columns[i] : i \in 1..Len(written_columns)} =
               {col \in df_columns : OrderIndex(col) > 0}
        /\ \A i, j \in 1..Len(written_columns) :
               i < j => 0 < OrderIndex(written_columns[i])
                        /\ OrderIndex(written_columns[i]) <
                               OrderIndex(written_columns[j])
        /\ \A col \in blank_columns : OrderIndex(col) > 0 =>
               \E i \in 1..Len(written_columns) : written_columns[i] = col

\* Scenario E: status blank in every row and written, a column of the fixed
\* order absent from the records and left out
C15_Witness ==
    /\ export_pc = "True"
    /\ "status" \in blank_columns
    /\ written_columns[Len(written_columns)] = "status"
    /\ "email" \notin df_columns
    /\ "notes" \in df_columns
    /\ Len(written_columns) >= 3

\* the export files that are older than the age the sweep is called with
OldFiles == {f \in fs : now - f.mtime > CleanupDays * TicksPerDay}

\* C12: the file of a match run is sent out at most once; the download that
\* sends it removes it and clears the session's reference to it, and until the
\* user runs a new match every further download is answered "not found".
C12_SingleUseExport ==
    /\ [](\A r \in 1..MaxRuns : served[r] <= 1)
    /\ [](\A u \in Users : retrieved[u] =>
              /\ web_session[u] = ClearedSession
              /\ response[u] \in {"file", "not_found", "forbidden"})
    /\ [][\A f \in fs : served'[f.run] > served[f.run] =>
              ~\E g \in fs' : g.path = f.path]_vars

\* a user has downloaded the file and has asked for it once more
C12_Witness ==
    \E u \in Users :
        /\ retrieved[u]
        /\ response[u] = "not_found"
        /\ \E r \in 1..Len(runs) : runs[r].user = u /\ served[r] = 1

\* C13: match runs of different users never write to the same path.
C13_DistinctExportPaths ==
    \A i, j \in 1..Len(runs) :
        runs[i].user # runs[j].user => runs[i].path # runs[j].path

\* C17: an export file older than the configured age is eventually removed,
\* downloaded or not.
C17_OldExportsSwept == (OldFiles # {}) ~> (OldFiles = {})

\* s is an initial segment of t
IsPrefix(s, t) == Len(s) <= Len(t) /\ SubSeq(t, 1, Len(s)) = s

\* C18: the Excel database has one row for every job description analyzed
\* successfully, and no save_jd_to_excel call removes or replaces a row an
\* earlier call wrote.
C18_ArchiveAppendOnly ==
    /\ [](excel_db.rows = analyzed)
    /\ [][IsPrefix(excel_db.rows, excel_db'.rows)]_vars

\* C19: whatever the language-model call comes to, extract_skills_from_jd
\* returns an object with the six keys - the sentinel when the call failed or
\* the output is no JSON object - and upload_jd stores it as an analysis.
C19_ExtractionNeverFails ==
    llm_output # NoOutput =>
        /\ extraction.kind = "object"
        /\ SentinelKeys \subseteq extraction.names
        /\ llm_output.kind # "object" => extraction = get_default_error_response
        /\ upload_message = "success"
        /\ \E jd \in jd_db : jd.pk = uploads /\ jd.sentinel = extraction.sentinel

\* C26: a candidate token that is empty after normalization never makes a
\* required skill count as matched: every matched skill of an entry is
\* matched through a non-empty token.
C26_EmptyTokenNeverMatches ==
    \A i \in 1..Len(matched_candidates) :
        LET c == matched_candidates[i]
            tokens == ParseCandidateSkills(PyStr(c.skills))
        IN  \A q \in 1..Len(c.matched_skills) :
                \E j \in 1..Len(tokens) :
                    /\ tokens[j] # s_empty
                    /\ \/ PyIn(c.matched_skills[q], tokens[j])
                       \/ PyIn(tokens[j], c.matched_skills[q])

\* what the matching logic puts into an entry
MatchingOutcome(list) ==
    [i \in 1..Len(list) |->
        <<list[i].row, list[i].matched_skills, list[i].match_percentage,
          list[i].matched_skills_count, list[i].total_required_skills>>]

\* C28: on records with the same skills text, the same required skills and
\* the same threshold the two rankers skip the same records and return the
\* same sequence of matched skills, percentage and counts.
C28_RankersEquivalent ==
    (calls = 2 /\ pc = "returned") =>
        MatchingOutcome(result) = MatchingOutcome(first_result)

\* a cell without a value
BlankCell(cell) == cell = NaNCell \/ PyStrip(cell.text) = s_empty

\* C22: a candidate field that the source record does not have, or has
\* blank, is "N/A" in the entry.
C22_MissingFieldsAreNA ==
    field_pc = "built" =>
        \A f \in FieldPool :
            (field_cols[f] = Absent \/ BlankCell(field_cols[f])) =>
                candidate_fields[f] = TextCell(s_NA)

\* the list after the rows from position i on have been scored
RECURSIVE ScoredFrom(_, _, _, _, _, _)
ScoredFrom(v, rows, required, threshold, i, list) ==
    IF i > Len(rows) THEN list
    ELSE LET next == AfterRow(v, rows[i], i, required, threshold, list)
         IN  IF Len(next) = Len(list)
             THEN ScoredFrom(v, rows, required, threshold, i + 1, list)
             ELSE ScoredFrom(v, rows, required, threshold, i + 1, next)

\* what a ranker call returns when nothing else runs
RankAlone(v, src, required, threshold) ==
    IF \/ ~src.reachable
       \/ ~src.has_skills
       \/ v = "sheet" /\ src.rows = <<>>
    THEN <<>>
    ELSE SortByMatchPercentage(
             ScoredFrom(v, src.rows, required, threshold, 1, <<>>))

\* C21: under every interleaving of two ranker calls each returns the list it
\* returns when run alone, and no step changes the source or the required
\* skills a caller passed.
C21_ConcurrentRankersIndependent ==
    /\ [](\A p \in Invocations :
              invocation[p].pc = "returned" =>
                  invocation[p].result =
                      RankAlone(invocation[p].variant, shared_source,
                                invocation[p].required_skills,
                                invocation[p].min_match_percentage))
    /\ [][/\ shared_source' = shared_source
          /\ \A p \in Invocations :
                 invocation'[p].required_skills =
                     invocation[p].required_skills]_vars

\* both calls have returned entries, and their lists differ
C21_Witness ==
    /\ \A p \in Invocations :
           invocation[p].pc = "returned" /\ invocation[p].result # <<>>
    /\ invocation[1].result # invocation[2].result

\* the values a sequence holds
Range(seq) == {seq[i] : i \in 1..Len(seq)}

\* C24: after the request that answers "Job Description analyzed
\* successfully! Original file deleted for security." the uploaded file of
\* that job description is no longer on disk.
C24_UploadedFileDeleted ==
    upload_message = "success" => uploads \notin jd_files

\* C29: when an upload ends without text or with an error, no JobDescription
\* row of it exists, its file is removed and the Excel database has no row
\* of it.
C29_FailedUploadLeavesNothing ==
    upload_message \in {"no_text", "error"} =>
        /\ ~\E jd \in jd_db : jd.pk = uploads
        /\ uploads \notin jd_files
        /\ uploads \notin Range(excel_db.rows)

\* an upload has failed in the analysis after an upload that succeeded
C29_Witness ==
    /\ upload_message = "error"
    /\ extraction.kind # "object"
    /\ uploads >= 2
    /\ \E jd \in jd_db : jd.pk = uploads - 1

\* C30: when two concurrent save_jd_to_excel calls have ended, no read or
\* write having failed, the Excel database holds the rows of both and every
\* row it held before.
C30_NoRowLostUnderConcurrency ==
    (\A p \in Savers : saver[p].pc = "done" /\ ~saver[p].failed) =>
        /\ Savers \subseteq Range(excel_db.rows)
        /\ Range(archive_before) \subseteq Range(excel_db.rows)

\* who may reach a job description: its creator and the staff
Permitted(u, jd) == u = jd.created_by \/ u \in {"u2"}

\* a request of user u to one of the four views that take the key of jd
ViewRequest(u, jd) ==
    \/ Results(u, jd)
    \/ MatchRun(u, jd)
    \/ ShowMatches(u, jd)
    \/ DownloadMatchedFile(u, jd)

\* C23: a request to results, match_candidates, show_matches or
\* download_matched_file by a user who is neither the creator of the job
\* description nor staff is denied, and no session, file or run record has
\* changed by then; a creator or staff is never denied.
C23_ForeignRequestsDenied ==
    [][\A u \in Users, jd \in JobDescriptions :
          ViewRequest(u, jd) =>
              IF Permitted(u, jd)
              THEN response'[u] # "forbidden"
              ELSE /\ response'[u] = "forbidden"
                   /\ UNCHANGED <<fs, web_session, runs, served>>]_vars

\* u1 has been denied while the staff user holds session data and a file
C23_Witness ==
    /\ response["u1"] = "forbidden"
    /\ response["u2"] = "found"
    /\ web_session["u2"].jd_id = 1
    /\ fs # {}

\* C27: what show_matches displays and download_matched_file serves was
\* stored by the most recent match_candidates request of that session for
\* the job description: never data that a later request for it, finding
\* nothing or failing, has superseded.
C27_DisplaysLatestRun ==
    \A u \in Users : response[u] \in {"matches", "file"} => ~superseded[u]

\* the POSTs of user u on record with a timestamp in the window of
\* RATE_WINDOW seconds that starts at a; each was handed to the view when it
\* was recorded
PassedWithin(u, a) ==
    Cardinality({i \in 1..Len(rate_limit_cache[u]) :
                    /\ a <= rate_limit_cache[u][i]
                    /\ rate_limit_cache[u][i] < a + RATE_WINDOW})

\* C25: under any interleaving of the threads, no user has more than 30
\* POSTs with timestamps within a window of 60 seconds handed to the view.
C25_RateLimitHolds ==
    \A u \in Users, a \in Timestamps : PassedWithin(u, a) <= RATE_LIMIT

====
